---------------------------- MODULE Spec2Model ----------------------------
(***************************************************************************)
(* Model of the stream-URL pipeline of src/src/utils/crypto.ts:            *)
(* fetchStreamUrl -> decryptStreamPath -> parseHlsManifest ->              *)
(* fetchPlaylist / parseStreamPlaylist, with getBaseUrl and resolveUrl.    *)
(*                                                                         *)
(* A JavaScript string is a sequence of one-character strings, so that     *)
(* startsWith, indexOf, substring, split, trim and the regular expressions *)
(* are computed character by character as the code computes them.  Two     *)
(* characters that TLA+ cannot write are named: "NUL" (code 0) and "BEL"   *)
(* (code 7).  Indices passed to and returned by the string operators are   *)
(* JavaScript's (0-based; -1 for "not found").                             *)
(***************************************************************************)
EXTENDS Integers, Sequences, FiniteSets, TLC

\* ------------------------------------------------------------------ bounds

\* Longest playlist body, in lines, that a manifest fetch may return.
MaxLines == 3

\* ------------------------------------------------------- JavaScript strings

\* s.substring(a, b)
Substring(s, a, b) == SubSeq(s, a + 1, b)

\* s.substring(a)
SubstringFrom(s, a) == SubSeq(s, a + 1, Len(s))

\* p occurs in s at 0-based position i
OccursAt(s, p, i) ==
    /\ i >= 0
    /\ i + Len(p) <= Len(s)
    /\ \A k \in 1 .. Len(p) : s[i + k] = p[k]

\* s.startsWith(p)
StartsWith(s, p) == OccursAt(s, p, 0)

Min(S) == CHOOSE x \in S : \A y \in S : x <= y

Max(S) == CHOOSE x \in S : \A y \in S : x >= y

\* s.indexOf(p, from)
IndexOfFrom(s, p, from) ==
    LET hits == {i \in from .. Len(s) : OccursAt(s, p, i)}
    IN  IF hits = {} THEN -1 ELSE Min(hits)

\* s.indexOf(p)
IndexOf(s, p) == IndexOfFrom(s, p, 0)

\* s.lastIndexOf(p)
LastIndexOf(s, p) ==
    LET hits == {i \in 0 .. Len(s) : OccursAt(s, p, i)}
    IN  IF hits = {} THEN -1 ELSE Max(hits)

\* s.includes(p)
Includes(s, p) == IndexOf(s, p) # -1

\* s.split(sep), sep one character: the pieces between its occurrences; never
\* an empty array ("".split("\n") is [""]).
Split(s, sep) ==
    LET at   == {i \in 1 .. Len(s) : s[i] = sep[1]}
        cuts == at \cup {0, Len(s) + 1}
        from(k) == IF k = 1 THEN 0
                   ELSE CHOOSE i \in at : Cardinality({j \in at : j < i}) = k - 2
        upto(k) == Min({i \in cuts : i > from(k)})
    IN  [k \in 1 .. Cardinality(at) + 1 |-> SubSeq(s, from(k) + 1, upto(k) - 1)]

\* The white space String.prototype.trim removes (those that occur here).
WhiteSpace == {" ", "\t", "\n", "\r"}

\* s.trim()
Trim(s) ==
    LET keep == {i \in 1 .. Len(s) : s[i] \notin WhiteSpace}
    IN  IF keep = {} THEN <<>> ELSE SubSeq(s, Min(keep), Max(keep))

UpperLetters == <<"A","B","C","D","E","F","G","H","I","J","K","L","M","N","O","P","Q","R","S","T","U","V","W","X","Y","Z">>

LowerLetters == <<"a","b","c","d","e","f","g","h","i","j","k","l","m","n","o","p","q","r","s","t","u","v","w","x","y","z">>

\* One character, lower-cased (the /i flag of a regular expression).
LowerChar(c) ==
    IF \E k \in 1 .. 26 : UpperLetters[k] = c
    THEN LowerLetters[CHOOSE k \in 1 .. 26 : UpperLetters[k] = c]
    ELSE c

LowerCase(s) == [k \in 1 .. Len(s) |-> LowerChar(s[k])]

Digits == <<"0","1","2","3","4","5","6","7","8","9">>

IsDigit(c) == \E k \in 1 .. 10 : Digits[k] = c

DigitValue(c) == (CHOOSE k \in 1 .. 10 : Digits[k] = c) - 1

\* Code points 32..126, the characters decryptStreamPath keeps.
IsPrintable(c) == c \notin {"NUL", "BEL", "\t", "\n", "\r"}

RECURSIVE Pow10(_)
Pow10(n) == IF n = 0 THEN 1 ELSE 10 * Pow10(n - 1)

\* The decimal value of a sequence of digits.
RECURSIVE DigitsValue(_)
DigitsValue(ds) ==
    IF ds = <<>> THEN 0
    ELSE 10 * DigitsValue(SubSeq(ds, 1, Len(ds) - 1)) + DigitValue(ds[Len(ds)])

\* The longest prefix of s made of digits.
DigitPrefix(s) ==
    LET stop == {i \in 1 .. Len(s) : ~IsDigit(s[i])}
    IN  IF stop = {} THEN s ELSE SubSeq(s, 1, Min(stop) - 1)

\* parseFloat(s) for the decimal literals without exponent: leading white
\* space, an optional sign, digits, an optional fraction; the parse stops at
\* the first other character.  The value is num / 10^scale; nan when no digit
\* was read.
ParseFloat(s) ==
    LET lead == {i \in 1 .. Len(s) : s[i] \notin WhiteSpace}
        t    == IF lead = {} THEN <<>> ELSE SubSeq(s, Min(lead), Len(s))
        neg  == t # <<>> /\ t[1] = "-"
        u    == IF t # <<>> /\ t[1] \in {"-", "+"} THEN Tail(t) ELSE t
        ip   == DigitPrefix(u)
        rest == SubstringFrom(u, Len(ip))
        fp   == IF rest # <<>> /\ rest[1] = "." THEN DigitPrefix(Tail(rest)) ELSE <<>>
        mag  == DigitsValue(ip \o fp)
    IN  IF ip = <<>> /\ fp = <<>>
        THEN [nan |-> TRUE, num |-> 0, scale |-> 0]
        ELSE [nan |-> FALSE, num |-> IF neg THEN 0 - mag ELSE mag, scale |-> Len(fp)]

\* Math.round(f * 1000) || 6000: the nearest integer, a half rounded up;
\* NaN and 0 are falsy and give the default.
DefaultDurationMs == 6000

RoundedMs(f) == (2 * 1000 * f.num + Pow10(f.scale)) \div (2 * Pow10(f.scale))

DurationMs(durationStr) ==
    LET f == ParseFloat(durationStr)
    IN  IF f.nan \/ RoundedMs(f) = 0 THEN DefaultDurationMs ELSE RoundedMs(f)

\* ---------------------------------------------------------- URL resolution

\* getBaseUrl(url)
getBaseUrl(url) ==
    LET urlWithoutQuery == Split(url, <<"?">>)[1]
        lastSlash == LastIndexOf(urlWithoutQuery, <<"/">>)
    IN  IF lastSlash # -1 THEN Substring(urlWithoutQuery, 0, lastSlash + 1)
        ELSE urlWithoutQuery

\* resolveUrl(baseUrl, path)
resolveUrl(baseUrl, path) ==
    IF StartsWith(path, <<"h","t","t","p",":","/","/">>) \/ StartsWith(path, <<"h","t","t","p","s",":","/","/">>) THEN path
    ELSE LET schemeEnd == IndexOf(baseUrl, <<":","/","/">>)
             pathStart == IF schemeEnd # -1
                          THEN IndexOfFrom(baseUrl, <<"/">>, schemeEnd + 3)
                          ELSE -1
         IN  IF StartsWith(path, <<"/">>) /\ schemeEnd # -1 /\ pathStart # -1
             THEN Substring(baseUrl, 0, pathStart) \o path
             ELSE baseUrl \o path

\* ------------------------------------------------------------ line patterns

\* /\.(ts|m4s|mp4|m4a|aac)(\?|$)/i.test(line)
SegmentExtensions == {<<"t","s">>, <<"m","4","s">>, <<"m","p","4">>, <<"m","4","a">>, <<"a","a","c">>}

MatchesExtension(line, exts, ignoreCase) ==
    LET hay == IF ignoreCase THEN LowerCase(line) ELSE line
    IN  \E i \in {k \in 0 .. Len(line) - 1 : line[k + 1] = "."}, e \in exts :
            /\ OccursAt(hay, e, i + 1)
            /\ \/ i + 1 + Len(e) = Len(line)
               \/ OccursAt(line, <<"?">>, i + 1 + Len(e))

isSegment(line) == MatchesExtension(line, SegmentExtensions, TRUE)

\* /\.m3u8(\?|$)/.test(line)
isPlaylistRef(line) == MatchesExtension(line, {<<"m","3","u","8">>}, FALSE)

\* line.match(/URI="([^"]+)"/): <<the captured group>>, or <<>> for no match.
MatchUri(line) ==
    LET open  == <<"U","R","I","=","\"">>
        ok(i) == /\ OccursAt(line, open, i)
                 /\ i + Len(open) < Len(line)
                 /\ line[i + Len(open) + 1] # "\""
                 /\ IndexOfFrom(line, <<"\"">>, i + Len(open)) # -1
        hits  == {i \in 0 .. Len(line) : ok(i)}
    IN  IF hits = {} THEN <<>>
        ELSE LET i == Min(hits)
             IN  <<Substring(line, i + Len(open), IndexOfFrom(line, <<"\"">>, i + Len(open)))>>

\* ------------------------------------------------------ parseStreamPlaylist

\* The scan's variables before the first line: no init segment, no segments,
\* the default duration pending.  An optional value is a sequence of length
\* at most one: <<>> is undefined.
ScanStart ==
    [initSegmentUrl |-> <<>>, segments |-> <<>>, currentDurationMs |-> DefaultDurationMs]

\* if (line.startsWith('#EXT-X-MAP:')) { ... initSegmentUrl = resolveUrl(...) }
ScanMap(baseUrl, st, line) ==
    IF StartsWith(line, <<"#","E","X","T","-","X","-","M","A","P",":">>) /\ MatchUri(line) # <<>>
    THEN [st EXCEPT !.initSegmentUrl = <<resolveUrl(baseUrl, MatchUri(line)[1])>>]
    ELSE st

\* if (line.startsWith('#EXTINF:')) { currentDurationMs = ... }
ScanDuration(st, line) ==
    IF StartsWith(line, <<"#","E","X","T","I","N","F",":">>)
    THEN [st EXCEPT !.currentDurationMs =
              DurationMs(Split(SubstringFrom(line, 8), <<",">>)[1])]
    ELSE st

\* ScanSegment without `currentDurationMs = 6000` after the push.
ScanSegmentKeepsDuration(baseUrl, st, line) ==
    IF ~StartsWith(line, <<"#">>) /\ isSegment(line)
    THEN [st EXCEPT
            !.segments = Append(@, [url |-> resolveUrl(baseUrl, line),
                                    durationMs |-> st.currentDurationMs])]
    ELSE st

\* ScanSegment without the isSegment test: every non-comment line is pushed.
ScanSegmentAnyLine(baseUrl, st, line) ==
    IF ~StartsWith(line, <<"#">>)
    THEN [st EXCEPT
            !.segments = Append(@, [url |-> resolveUrl(baseUrl, line),
                                    durationMs |-> st.currentDurationMs]),
            !.currentDurationMs = DefaultDurationMs]
    ELSE st

\* ScanSegment with unshift in place of push: the newest segment comes first.
ScanSegmentPrepend(baseUrl, st, line) ==
    IF ~StartsWith(line, <<"#">>) /\ isSegment(line)
    THEN [st EXCEPT
            !.segments = <<[url |-> resolveUrl(baseUrl, line),
                            durationMs |-> st.currentDurationMs]>> \o @,
            !.currentDurationMs = DefaultDurationMs]
    ELSE st

\* if (!line.startsWith('#')) { if (isSegment) { segments.push(...); reset } }
ScanSegment(baseUrl, st, line) ==
    IF ~StartsWith(line, <<"#">>) /\ isSegment(line)
    THEN [st EXCEPT
            !.segments = Append(@, [url |-> resolveUrl(baseUrl, line),
                                    durationMs |-> st.currentDurationMs]),
            !.currentDurationMs = DefaultDurationMs]
    ELSE st

\* One iteration of the for loop over the lines.
ScanLine(baseUrl, st, line) ==
    IF line = <<>> THEN st
    ELSE ScanSegment(baseUrl, ScanDuration(ScanMap(baseUrl, st, line), line), line)

RECURSIVE ScanLines(_, _, _)
ScanLines(baseUrl, st, lines) ==
    IF lines = <<>> THEN st
    ELSE ScanLines(baseUrl, ScanLine(baseUrl, st, Head(lines)), Tail(lines))

\* segments.reduce((sum, s) => sum + s.durationMs, 0)
RECURSIVE SumDurations(_)
SumDurations(segments) ==
    IF segments = <<>> THEN 0
    ELSE Head(segments).durationMs + SumDurations(Tail(segments))

\* parseStreamPlaylist(playlistUrl, lines)
parseStreamPlaylist(playlistUrl, lines) ==
    LET st == ScanLines(getBaseUrl(playlistUrl), ScanStart, lines)
    IN  [initSegmentUrl  |-> st.initSegmentUrl,
         segments        |-> st.segments,
         totalDurationMs |-> SumDurations(st.segments)]

\* -------------------------------------------------------- decryptStreamPath

HLS_BASE_URL == <<"h","t","t","p","s",":","/","/","v","o","d","h","l","s","g","a","a","n","a","-","e","b","w",".","a","k","a","m","a","i","z","e","d",".","n","e","t","/">>

\* An encrypted token is its first character and the Base64 payload that
\* follows the skipped offset + 16 characters.  Base64 and AES-128-CBC are not
\* computed: Decipher is the table of what createDecipheriv(...).update/final
\* gives for each payload of the model, a thrown error (a payload whose length
\* is no multiple of the block size) or the decoded text.
Payloads == {"P_path", "P_bare", "P_none", "P_twice", "P_bad"}

Decipher(payload) ==
    CASE payload = "P_path"  -> [ok |-> TRUE, text |-> <<"NUL"," ","x","/","h","l","s","/","a","/","b","/","i",".","m","3","u","8","?","k","=","1","BEL"," ","NUL","NUL">>]
      [] payload = "P_bare"  -> [ok |-> TRUE, text |-> <<"h","l","s","/","a","/","i",".","m","3","u","8","NUL">>]
      [] payload = "P_none"  -> [ok |-> TRUE, text |-> <<"x","/","d","a","s","h","/","a",".","m","p","d","BEL","BEL">>]
      [] payload = "P_twice" -> [ok |-> TRUE, text |-> <<"q","h","l","s","/","z",".","m","p","4","/","h","l","s","/","v",".","m","3","u","8">>]
      [] OTHER               -> [ok |-> FALSE, text |-> <<>>]

\* decrypted.toString('utf8').replace(/\0/g, '').trim(), then the filter to
\* the character codes 32..126.
CleanText(text) ==
    SelectSeq(Trim(SelectSeq(text, LAMBDA c : c # "NUL")), IsPrintable)

\* HasHlsPath testing for 'hls/', the string indexOf then looks for.
HasHlsMarker(rawText) == Includes(rawText, <<"h","l","s","/">>)

\* rawText.includes('/hls/')
HasHlsPath(rawText) == Includes(rawText, <<"/","h","l","s","/">>)

\* rawText.indexOf('hls/')
HlsPathStart(rawText) == IndexOf(rawText, <<"h","l","s","/">>)

\* decryptStreamPath(encryptedData): the URL ('' on failure, here <<>>) and
\* the console.warn calls it made, each the tuple of its arguments.
decryptStreamPath(encryptedData) ==
    IF ~IsDigit(encryptedData.first)
    THEN [url |-> <<>>, warn |-> << <<"Invalid offset in encrypted data">> >>]
    ELSE IF ~Decipher(encryptedData.payload).ok
    THEN [url |-> <<>>, warn |-> << <<"Failed to decrypt stream path:", "wrong final block length">> >>]
    ELSE LET rawText == CleanText(Decipher(encryptedData.payload).text)
         IN  IF HasHlsPath(rawText)
             THEN [url  |-> HLS_BASE_URL \o SubstringFrom(rawText, HlsPathStart(rawText)),
                   warn |-> <<>>]
             ELSE [url |-> <<>>, warn |-> << <<"No /hls/ path found in decrypted text">> >>]

\* ------------------------------------------------------------------ inputs

\* quality: 'low' | 'medium' | 'high' = 'high'.  The calls modelled pass the
\* default, as getMediaUrls does (line 315); the value only travels into the
\* request body and the descriptor.
Qualities == {"high"}

\* The stream_path values the upstream lookup may carry: a first character (a
\* digit or not) and a payload; EmptyToken is the empty string.
Tokens == [first : {"3", "x"}, payload : Payloads]

EmptyToken == [first |-> "", payload |-> ""]

\* What `await fetch(url, ...)` and `await res.json()` of the lookup give:
\* the fetch rejects, the body is no JSON, or the parsed value: null, or an
\* object with an optional api_status and an optional data object holding an
\* optional stream_path and an optional bit_rate.
NoData == [present |-> FALSE, stream_path |-> <<>>, bit_rate |-> <<>>]

Json(status, data) ==
    [kind |-> "json", isNull |-> FALSE, api_status |-> status, data |-> data]

LookupResponses ==
    {[kind |-> k, isNull |-> FALSE, api_status |-> <<>>, data |-> NoData] :
        k \in {"rejected", "badJson"}}
    \cup {[kind |-> "json", isNull |-> TRUE, api_status |-> <<>>, data |-> NoData]}
    \cup {Json(<<"success">>,
                [present |-> TRUE, stream_path |-> <<t>>,
                 bit_rate |-> IF t.payload = "P_twice" THEN <<>> ELSE <<<<"1","2","8">>>>]) :
            t \in Tokens \cup {EmptyToken}}
    \cup {Json(st, [present |-> TRUE,
                    stream_path |-> <<[first |-> "3", payload |-> "P_path"]>>,
                    bit_rate |-> <<<<"1","2","8">>>>]) :
            st \in {<<"failure">>, <<>>}}
    \cup {Json(<<"success">>, NoData),
          Json(<<"success">>, [present |-> TRUE, stream_path |-> <<>>, bit_rate |-> <<<<"1","2","8">>>>])}

NoLookup == [kind |-> "none", isNull |-> FALSE, api_status |-> <<>>, data |-> NoData]

\* The lines a playlist body is made of, before split and trim.
RawLines ==
    { <<>>,
      <<"#","E","X","T","I","N","F",":","4",".","0",",">>,
      <<"#","E","X","T","I","N","F",":","-","3",",">>,
      <<"#","E","X","T","I","N","F",":","0",".","0","0","0","4",",","x">>,
      <<"#","E","X","T","-","X","-","M","A","P",":","U","R","I","=","\"","i","n","i","t",".","m","p","4","\"">>,
      <<"n","o","t","e","s",".","t","x","t">>,
      <<"s","e","g","0",".","t","s","\r">>,
      <<"/","m","e","d","i","a","/","s","e","g","1",".","M","4","S","?","t","=","1">>,
      <<"s","t","r","e","a","m",".","m","3","u","8">>,
      <<"h","t","t","p","s",":","/","/","c","d","n",".","m","3","u","8">> }

RECURSIVE JoinLines(_)
JoinLines(ls) ==
    IF ls = <<>> THEN <<>>
    ELSE IF Len(ls) = 1 THEN ls[1]
    ELSE ls[1] \o <<"\n">> \o JoinLines(Tail(ls))

\* Every body of at most MaxLines lines.
Texts == {JoinLines(ls) : ls \in UNION {[1 .. n -> RawLines] : n \in 0 .. MaxLines}}

\* What `await fetch(url, ...)` and `await res.text()` of a playlist give: the
\* fetch rejects, a non-2xx status, or a 2xx status with a body.
PlaylistResponses ==
    {[kind |-> "rejected", ok |-> FALSE, text |-> <<>>],
     [kind |-> "http", ok |-> FALSE, text |-> <<"N","o","t"," ","F","o","u","n","d">>]}
    \cup {[kind |-> "http", ok |-> TRUE, text |-> t] : t \in Texts}

NoResponse == [kind |-> "none", ok |-> FALSE, text |-> <<>>]

\* ------------------------------------------------------------------- state

VARIABLES
    pc,                 \* where fetchStreamUrl stands
    quality,            \* its argument
    lookup,             \* the settled lookup response
    calls,              \* the network calls issued, in order, each with its state
    resp,               \* the playlist response settled and not yet replaced by a new fetch
    decrypts,           \* calls of decryptStreamPath made
    hlsUrl,             \* const hlsUrl (line 266); <<>> before, and for ''
    streamPlaylistUrl,  \* let streamPlaylistUrl (line 128); <<>> is undefined
    manifest,           \* what parseHlsManifest resolved with; <<>> before
    result,             \* what fetchStreamUrl resolved with; <<>> is null
    thrown,             \* fetchStreamUrl rejected instead of resolving
    warnings            \* the console.warn calls made, in order, each its arguments

vars ==
    <<pc, quality, lookup, calls, resp, decrypts, hlsUrl, streamPlaylistUrl,
      manifest, result, thrown, warnings>>

Init ==
    /\ pc = "start"
    /\ quality \in Qualities
    /\ lookup = NoLookup
    /\ calls = <<>>
    /\ resp = NoResponse
    /\ decrypts = 0
    /\ hlsUrl = <<>>
    /\ streamPlaylistUrl = <<>>
    /\ manifest = <<>>
    /\ result = <<>>
    /\ thrown = FALSE
    /\ warnings = <<>>

\* ------------------------------------------------------------ network calls

\* fetch(...) is called: one more call, pending.
Issue(kind) == calls' = Append(calls, [kind |-> kind, state |-> "pending"])

\* The pending call settles: the fetch rejected, or a response with a 2xx
\* status ("ok") or another one ("non2xx").
Settle(state) == calls' = [calls EXCEPT ![Len(calls)].state = state]

\* ----------------------------------------------------------- fetchStreamUrl

\* Catch with the error thrown again after the warning.
CatchAndRethrow(message) ==
    /\ pc' = "done"
    /\ result' = <<>>
    /\ thrown' = TRUE
    /\ warnings' = Append(warnings, <<"Failed to fetch stream URL:", message>>)

\* catch (error) { console.warn('Failed to fetch stream URL:', ...); return null }
Catch(message) ==
    /\ pc' = "done"
    /\ result' = <<>>
    /\ thrown' = FALSE
    /\ warnings' = Append(warnings, <<"Failed to fetch stream URL:", message>>)

\* return null, after the warnings written on the way
ReturnNull(warned) ==
    /\ pc' = "done"
    /\ result' = <<>>
    /\ thrown' = FALSE
    /\ warnings' = warnings \o warned

\* HasStreamPath without the api_status test.
HasStreamPathAnyStatus(data) ==
    /\ data.data.present
    /\ data.data.stream_path # <<>>
    /\ data.data.stream_path[1] # EmptyToken

\* data.api_status === 'success' && data.data?.stream_path
HasStreamPath(data) ==
    /\ data.api_status = <<"success">>
    /\ data.data.present
    /\ data.data.stream_path # <<>>
    /\ data.data.stream_path[1] # EmptyToken

\* fetchStreamUrl is called; it runs to `await fetch(url, {method: 'POST', ...})`.
Call ==
    /\ pc = "start"
    /\ Issue("lookup")
    /\ pc' = "awaitLookup"
    /\ UNCHANGED <<quality, lookup, resp, decrypts, hlsUrl, streamPlaylistUrl,
                   manifest, result, thrown, warnings>>

\* The lookup settles (the response and its JSON body).
LookupSettles ==
    /\ pc = "awaitLookup"
    /\ \E r \in LookupResponses :
          /\ lookup' = r
          /\ Settle(IF r.kind = "rejected" THEN "rejected" ELSE "ok")
    /\ pc' = "gotLookup"
    /\ UNCHANGED <<quality, resp, decrypts, hlsUrl, streamPlaylistUrl,
                   manifest, result, thrown, warnings>>

\* Lines 256-270: from the parsed lookup to the master-manifest fetch that
\* parseHlsManifest -> fetchPlaylist issues, or to the return.
AfterLookup ==
    /\ pc = "gotLookup"
    /\ IF lookup.kind = "rejected" THEN
          /\ Catch("fetch failed")
          /\ UNCHANGED <<decrypts, hlsUrl, calls>>
       ELSE IF lookup.kind = "badJson" THEN
          /\ Catch("Unexpected token in JSON")
          /\ UNCHANGED <<decrypts, hlsUrl, calls>>
       ELSE IF lookup.isNull THEN
          /\ Catch("Cannot read properties of null")
          /\ UNCHANGED <<decrypts, hlsUrl, calls>>
       ELSE IF ~HasStreamPath(lookup) THEN
          /\ ReturnNull(<<>>)
          /\ UNCHANGED <<decrypts, hlsUrl, calls>>
       ELSE LET d == decryptStreamPath(lookup.data.stream_path[1])
            IN  /\ decrypts' = decrypts + 1
                /\ hlsUrl' = d.url
                /\ IF d.url = <<>> THEN
                      /\ ReturnNull(d.warn)
                      /\ UNCHANGED calls
                   ELSE
                      /\ Issue("master")
                      /\ pc' = "awaitMaster"
                      /\ UNCHANGED <<result, thrown, warnings>>
    /\ UNCHANGED <<quality, lookup, resp, streamPlaylistUrl, manifest>>

\* ------------------------------------------- fetchPlaylist, parseHlsManifest

\* fetchPlaylist: the message of what it throws, <<>> when it returns.
FetchError(r) ==
    IF r.kind = "rejected" THEN <<"fetch failed">>
    ELSE IF ~r.ok THEN <<"Failed to fetch playlist: 404">>
    ELSE <<>>

\* text.split('\n').map(line => line.trim())
PlaylistLines(text) ==
    LET parts == Split(text, <<"\n">>)
    IN  [k \in 1 .. Len(parts) |-> Trim(parts[k])]

\* if (line && !line.startsWith('#') && /\.m3u8(\?|$)/.test(line))
IsStreamPlaylistLine(line) ==
    line # <<>> /\ ~StartsWith(line, <<"#">>) /\ isPlaylistRef(line)

\* FindStreamPlaylistUrl without the .m3u8 test: the first non-comment line.
FindFirstReference(baseUrl, lines) ==
    LET hits == {k \in 1 .. Len(lines) : lines[k] # <<>> /\ ~StartsWith(lines[k], <<"#">>)}
    IN  IF hits = {} THEN <<>> ELSE <<resolveUrl(baseUrl, lines[Min(hits)])>>

\* The loop of lines 128-134: the first matching line, resolved; <<>> is
\* undefined.
FindStreamPlaylistUrl(baseUrl, lines) ==
    LET hits == {k \in 1 .. Len(lines) : IsStreamPlaylistLine(lines[k])}
    IN  IF hits = {} THEN <<>> ELSE <<resolveUrl(baseUrl, lines[Min(hits)])>>

\* parseHlsManifest resolves with m; fetchStreamUrl's await resumes next.
Resolve(m) ==
    /\ manifest' = <<m>>
    /\ pc' = "gotManifest"
    /\ UNCHANGED <<result, thrown, warnings>>

\* The master-manifest fetch settles.
MasterSettles ==
    /\ pc = "awaitMaster"
    /\ \E r \in PlaylistResponses :
          /\ resp' = r
          /\ Settle(IF r.kind = "rejected" THEN "rejected"
                    ELSE IF r.ok THEN "ok" ELSE "non2xx")
    /\ pc' = "gotMaster"
    /\ UNCHANGED <<quality, lookup, decrypts, hlsUrl, streamPlaylistUrl,
                   manifest, result, thrown, warnings>>

\* Lines 70-72 and 123-142: from the master response to the media-manifest
\* fetch, to parseStreamPlaylist of the master itself, or to the throw that
\* fetchStreamUrl catches.
AfterMaster ==
    /\ pc = "gotMaster"
    /\ IF FetchError(resp) # <<>> THEN
          /\ Catch(FetchError(resp)[1])
          /\ UNCHANGED <<streamPlaylistUrl, manifest, calls, resp>>
       ELSE LET masterLines == PlaylistLines(resp.text)
                found == FindStreamPlaylistUrl(getBaseUrl(hlsUrl), masterLines)
            IN  IF Len(masterLines) = 0 THEN
                   /\ Catch("Empty HLS playlist")
                   /\ UNCHANGED <<streamPlaylistUrl, manifest, calls, resp>>
                ELSE IF found = <<>> \/ found[1] = <<>> THEN
                   /\ Resolve(parseStreamPlaylist(hlsUrl, masterLines))
                   /\ UNCHANGED <<streamPlaylistUrl, calls, resp>>
                ELSE
                   /\ streamPlaylistUrl' = found
                   /\ Issue("media")
                   /\ pc' = "awaitMedia"
                   /\ resp' = NoResponse
                   /\ UNCHANGED <<manifest, result, thrown, warnings>>
    /\ UNCHANGED <<quality, lookup, decrypts, hlsUrl>>

\* The media-manifest fetch settles.
MediaSettles ==
    /\ pc = "awaitMedia"
    /\ \E r \in PlaylistResponses :
          /\ resp' = r
          /\ Settle(IF r.kind = "rejected" THEN "rejected"
                    ELSE IF r.ok THEN "ok" ELSE "non2xx")
    /\ pc' = "gotMedia"
    /\ UNCHANGED <<quality, lookup, decrypts, hlsUrl, streamPlaylistUrl,
                   manifest, result, thrown, warnings>>

\* Lines 70-72 and 143: parseStreamPlaylist of the media playlist, or the throw.
AfterMedia ==
    /\ pc = "gotMedia"
    /\ IF FetchError(resp) # <<>> THEN
          /\ Catch(FetchError(resp)[1])
          /\ UNCHANGED manifest
       ELSE Resolve(parseStreamPlaylist(streamPlaylistUrl[1], PlaylistLines(resp.text)))
    /\ UNCHANGED <<quality, lookup, calls, resp, decrypts, hlsUrl, streamPlaylistUrl>>

\* ------------------------------------------------- fetchStreamUrl, the end

\* manifest.segments.length === 0
NoSegments(m) == Len(m.segments) = 0

\* Lines 279-283: the format, from the first segment's URL.
DetectFormat(firstSegmentUrl) ==
    IF Includes(firstSegmentUrl, <<".","m","4","s">>) THEN "m4s"
    ELSE IF Includes(firstSegmentUrl, <<".","m","p","4">>) THEN "mp4"
    ELSE IF Includes(firstSegmentUrl, <<".","t","s">>) THEN "ts"
    ELSE IF Includes(firstSegmentUrl, <<".","a","a","c">>) THEN "aac"
    ELSE "m4a"

\* data.data.bit_rate || ''
BitRate(data) == IF data.data.bit_rate = <<>> THEN <<>> ELSE data.data.bit_rate[1]

\* Descriptor with the first segment left out of the list.
DescriptorWithoutFirst(q, data, url, m) ==
    [quality    |-> q,
     bitRate    |-> BitRate(data),
     hlsUrl     |-> url,
     url        |-> m.segments[1].url,
     initUrl    |-> m.initSegmentUrl,
     segments   |-> Tail(m.segments),
     durationMs |-> m.totalDurationMs,
     format     |-> DetectFormat(m.segments[1].url)]

\* The object of lines 285-294.
Descriptor(q, data, url, m) ==
    [quality    |-> q,
     bitRate    |-> BitRate(data),
     hlsUrl     |-> url,
     url        |-> m.segments[1].url,
     initUrl    |-> m.initSegmentUrl,
     segments   |-> m.segments,
     durationMs |-> m.totalDurationMs,
     format     |-> DetectFormat(m.segments[1].url)]

\* Lines 272-294: the manifest in hand, return null or the descriptor.
Assemble ==
    /\ pc = "gotManifest"
    /\ IF NoSegments(manifest[1])
       THEN ReturnNull(<< <<"No segments found in HLS manifest">> >>)
       ELSE /\ pc' = "done"
            /\ result' = <<Descriptor(quality, lookup, hlsUrl, manifest[1])>>
            /\ UNCHANGED <<thrown, warnings>>
    /\ UNCHANGED <<quality, lookup, calls, resp, decrypts, hlsUrl,
                   streamPlaylistUrl, manifest>>

Next ==
    \/ Call
    \/ LookupSettles
    \/ AfterLookup
    \/ MasterSettles
    \/ AfterMaster
    \/ MediaSettles
    \/ AfterMedia
    \/ Assemble

Spec == Init /\ [][Next]_vars

\* ======================================================== the claims

\* The playlist parseStreamPlaylist scanned, once parseHlsManifest resolved.
ScannedUrl == IF streamPlaylistUrl # <<>> THEN streamPlaylistUrl[1] ELSE hlsUrl

ScannedLines == PlaylistLines(resp.text)

\* A non-comment, non-empty line.
IsContentLine(line) == line # <<>> /\ line[1] # "#"

\* A line of a media segment.
IsSegmentLine(line) == IsContentLine(line) /\ isSegment(line)

\* A segment-duration directive.
IsDurationLine(line) == StartsWith(line, <<"#","E","X","T","I","N","F",":">>)

SegmentIndices(lines) == {i \in 1 .. Len(lines) : IsSegmentLine(lines[i])}

\* The index of the k-th segment line.
NthSegmentLine(lines, k) ==
    CHOOSE i \in SegmentIndices(lines) :
        Cardinality({j \in SegmentIndices(lines) : j < i}) = k - 1

\* The text of a duration directive between the ':' and the first ','.
DurationText(line) == Split(SubstringFrom(line, 8), <<",">>)[1]

LastWarning == warnings[Len(warnings)]

Range(f) == {f[x] : x \in DOMAIN f}

\* ------------------------------------------------------------------- C1
\* C1: a descriptor fetchStreamUrl returns is never partial: whenever the
\* result is not null its segments list has at least one element.
C1_NeverPartial == result # <<>> => Len(result[1].segments) >= 1

C1_Witness ==
    /\ pc = "done"
    /\ result # <<>>
    /\ Len(calls) = 3
    /\ Len(result[1].segments) = 1

\* ------------------------------------------------------------------- C2
\* The failures of the pipeline stages, read off the inputs and the calls.
LookupFailed ==
    \/ lookup.kind \in {"rejected", "badJson"}
    \/ /\ lookup.kind = "json"
       /\ \/ lookup.isNull
          \/ lookup.api_status # <<"success">>
          \/ ~lookup.data.present
          \/ lookup.data.stream_path = <<>>
          \/ lookup.data.stream_path[1] = EmptyToken

DecryptFailed == decrypts > 0 /\ hlsUrl = <<>>

FetchFailed == \E i \in 2 .. Len(calls) : calls[i].state \in {"rejected", "non2xx"}

NoSegmentsFound == manifest # <<>> /\ manifest[1].segments = <<>>

AnyFailure == LookupFailed \/ DecryptFailed \/ FetchFailed \/ NoSegmentsFound

Formats == {"m4s", "mp4", "ts", "aac", "m4a"}

Complete(d) ==
    /\ d.quality = quality
    /\ d.hlsUrl = hlsUrl /\ d.hlsUrl # <<>>
    /\ d.segments # <<>>
    /\ d.segments = manifest[1].segments
    /\ d.url = d.segments[1].url
    /\ d.initUrl = manifest[1].initSegmentUrl
    /\ d.durationMs = manifest[1].totalDurationMs
    /\ d.format \in Formats

\* C2: every failure at any stage makes fetchStreamUrl return null; it never
\* throws to its caller, and it returns nothing but null or a complete
\* descriptor.
C2_FailureIsNull ==
    /\ ~thrown
    /\ pc = "done" /\ AnyFailure => result = <<>>
    /\ result # <<>> => pc = "done" /\ ~AnyFailure /\ Complete(result[1])

C2_Witness ==
    /\ pc = "done"
    /\ Len(calls) = 3
    /\ calls[3].state = "non2xx"
    /\ result = <<>>
    /\ LastWarning = <<"Failed to fetch stream URL:", "Failed to fetch playlist: 404">>

\* ------------------------------------------------------------------- C3
\* The duration directive the claim gives segment line i: the last directive
\* before it, when no other non-comment, non-empty line lies between them.
ClaimedDirective(lines, i) ==
    {j \in 1 .. i - 1 :
        /\ IsDurationLine(lines[j])
        /\ \A m \in j + 1 .. i - 1 :
              ~IsDurationLine(lines[m]) /\ ~IsContentLine(lines[m])}

\* The same with "no other segment line lies between them".
PendingDirective(lines, i) ==
    {j \in 1 .. i - 1 :
        /\ IsDurationLine(lines[j])
        /\ \A m \in j + 1 .. i - 1 :
              ~IsDurationLine(lines[m]) /\ ~IsSegmentLine(lines[m])}

CarriedMs(lines, directive) ==
    IF directive = {} THEN DefaultDurationMs
    ELSE DurationMs(DurationText(lines[CHOOSE j \in directive : TRUE]))

\* C3 as stated: a segment line carries the parsed duration only when the
\* directive is the last one before it and no other non-comment, non-empty
\* line lies between them; every other segment carries 6000 ms.
C3_NextContentLineOnly ==
    manifest # <<>> =>
        LET lines == ScannedLines
        IN  /\ Len(manifest[1].segments) = Cardinality(SegmentIndices(lines))
            /\ \A k \in 1 .. Len(manifest[1].segments) :
                  manifest[1].segments[k].durationMs =
                      CarriedMs(lines, ClaimedDirective(lines, NthSegmentLine(lines, k)))

\* C3 (amended): a parsed duration stays pending until the next segment line:
\* a segment line carries the parsed duration exactly when the directive is
\* the last duration directive before it and no other segment line lies
\* between them (other non-comment lines in between do not use it up); every
\* other segment carries 6000 ms.
C3_NextSegmentLineOnly ==
    manifest # <<>> =>
        LET lines == ScannedLines
        IN  /\ Len(manifest[1].segments) = Cardinality(SegmentIndices(lines))
            /\ \A k \in 1 .. Len(manifest[1].segments) :
                  manifest[1].segments[k].durationMs =
                      CarriedMs(lines, PendingDirective(lines, NthSegmentLine(lines, k)))

\* A directive, a non-segment line, then a segment: the segment carries the
\* parsed 4000 ms across the other line.
C3_Witness ==
    /\ manifest # <<>>
    /\ Len(manifest[1].segments) = 1
    /\ manifest[1].segments[1].durationMs = 4000
    /\ LET lines == ScannedLines
       IN  /\ Len(lines) = 3
           /\ IsDurationLine(lines[1])
           /\ IsContentLine(lines[2]) /\ ~IsSegmentLine(lines[2])
           /\ IsSegmentLine(lines[3])

\* ------------------------------------------------------------------- C4
\* C4 as stated: manifest resolution never resolves with a Manifest whose
\* segments list is empty (a manifest without segment lines fails instead).
C4_NoEmptyManifest == manifest # <<>> => manifest[1].segments # <<>>

\* C4 (amended): for a manifest without any segment line parseHlsManifest
\* resolves with a Manifest of no segments and total duration 0; it is
\* fetchStreamUrl that then warns 'No segments found in HLS manifest' and
\* returns null.
C4_EmptyManifestThenNull ==
    manifest # <<>> /\ (\A line \in Range(ScannedLines) : ~IsSegmentLine(line)) =>
        /\ manifest[1].segments = <<>>
        /\ manifest[1].totalDurationMs = 0
        /\ pc \in {"gotManifest", "done"}
        /\ pc = "done" =>
              /\ result = <<>>
              /\ ~thrown
              /\ LastWarning = <<"No segments found in HLS manifest">>

\* A media playlist of directives and other lines only, resolved and refused.
C4_Witness ==
    /\ pc = "done"
    /\ Len(calls) = 3
    /\ manifest # <<>>
    /\ result = <<>>
    /\ LET lines == ScannedLines
       IN  /\ Len(lines) = 3
           /\ \A i \in 1 .. 3 : lines[i] # <<>> /\ ~IsSegmentLine(lines[i])
           /\ \E i \in 1 .. 3 : IsContentLine(lines[i])

\* ------------------------------------------------------------------- C5
\* C5: when the text fetched for manifestUrl is empty, resolution fails with
\* EmptyManifest ('Empty HLS playlist') before any scan: no nested playlist is
\* looked for and parseStreamPlaylist never runs, so no Manifest is produced.
C5_EmptyManifestFails ==
    /\ Len(calls) = 2
    /\ calls[2].state = "ok"
    /\ resp.kind = "http" /\ resp.ok /\ resp.text = <<>>
    /\ pc # "gotMaster"
    => /\ pc = "done"
       /\ manifest = <<>>
       /\ result = <<>>
       /\ LastWarning = <<"Failed to fetch stream URL:", "Empty HLS playlist">>

\* ------------------------------------------------------------------- C6
\* URL resolution as the claim states it.
IsAbsoluteUrl(r) == StartsWith(r, <<"h","t","t","p",":","/","/">>) \/ StartsWith(r, <<"h","t","t","p","s",":","/","/">>)

\* The scheme and authority of an absolute URL: up to the first '/' or '?'
\* after the "://".
SchemeAndAuthority(u) ==
    LET from == IndexOf(u, <<":","/","/">>) + 3
        ends == {i \in from .. Len(u) - 1 : u[i + 1] \in {"/", "?"}}
    IN  IF ends = {} THEN u ELSE Substring(u, 0, Min(ends))

\* The directory prefix: the query stripped, cut after the last '/'.
DirectoryPrefix(u) ==
    LET q    == {i \in 1 .. Len(u) : u[i] = "?"}
        path == IF q = {} THEN u ELSE SubSeq(u, 1, Min(q) - 1)
        sl   == {i \in 1 .. Len(path) : path[i] = "/"}
    IN  IF sl = {} THEN path ELSE SubSeq(path, 1, Max(sl))

ClaimedResolve(u, r) ==
    IF IsAbsoluteUrl(r) THEN r
    ELSE IF r # <<>> /\ r[1] = "/" THEN SchemeAndAuthority(u) \o r
    ELSE DirectoryPrefix(u) \o r

\* C6: every segment URL of a resolved Manifest is the claimed resolution of
\* its line against the URL of the playlist it stands in.
C6_UrlResolution ==
    manifest # <<>> =>
        LET lines == ScannedLines
        IN  \A k \in 1 .. Len(manifest[1].segments) :
                k <= Cardinality(SegmentIndices(lines)) =>
                    manifest[1].segments[k].url =
                        ClaimedResolve(ScannedUrl, lines[NthSegmentLine(lines, k)])

\* ------------------------------------------------------------------- C7
\* The lookup answered with JSON whose status is not success, or without a
\* token.
LookupWithoutSuccess ==
    /\ lookup.kind = "json"
    /\ ~lookup.isNull
    /\ \/ lookup.api_status # <<"success">>
       \/ ~lookup.data.present
       \/ lookup.data.stream_path = <<>>
       \/ lookup.data.stream_path[1] = EmptyToken

\* C7: after a lookup with a non-success status or no token, fetchStreamUrl
\* returns null, and no decryption and no manifest fetch is made in that call.
C7_NoWorkAfterFailedLookup ==
    LookupWithoutSuccess =>
        /\ decrypts = 0
        /\ hlsUrl = <<>>
        /\ Len(calls) = 1
        /\ manifest = <<>>
        /\ pc \in {"gotLookup", "done"}
        /\ pc = "done" => result = <<>> /\ ~thrown

\* A 'failure' status that does carry a token.
C7_Witness ==
    /\ pc = "done"
    /\ lookup.kind = "json"
    /\ lookup.api_status = <<"failure">>
    /\ lookup.data.stream_path # <<>>
    /\ result = <<>>

\* ------------------------------------------------------------------- C8
CallKinds == [i \in 1 .. Len(calls) |-> calls[i].kind]

\* The calls made are the first ones of lookup, master, media, in that order,
\* and all but the last have settled.
CallsInOrder ==
    /\ Len(calls) <= 3
    /\ CallKinds = SubSeq(<<"lookup", "master", "media">>, 1, Len(calls))
    /\ \A i \in 1 .. Len(calls) - 1 : calls[i].state = "ok"
    /\ pc # "start" => Len(calls) >= 1
    /\ pc = "done" => calls[Len(calls)].state # "pending"

\* A call is added only at the end, the calls made stay, and the media fetch
\* is added only on a master response holding a nested playlist reference.
CallsStep ==
    /\ Len(calls') >= Len(calls)
    /\ \A i \in 1 .. Len(calls) : calls'[i].kind = calls[i].kind
    /\ Len(calls') = 3 /\ Len(calls) = 2 =>
          /\ resp.kind = "http" /\ resp.ok
          /\ \E i \in 1 .. Len(ScannedLines) :
                IsContentLine(ScannedLines[i]) /\ isPlaylistRef(ScannedLines[i])

\* C8: within one call the network calls are sequential and ordered: one
\* lookup, then at most one master-manifest fetch, then at most one
\* media-manifest fetch, each started after the previous one completed, the
\* media fetch only when the master held a nested reference; at most three.
C8_SequentialCalls == []CallsInOrder /\ [][CallsStep]_vars

C8_Witness ==
    /\ pc = "done"
    /\ CallKinds = <<"lookup", "master", "media">>
    /\ \A i \in 1 .. 3 : calls[i].state = "ok"
    /\ result # <<>>

\* ------------------------------------------------------------------- C9
\* The token decryptStreamPath was called with, and the cleaned text.
DecryptedToken == lookup.data.stream_path[1]

RawText == CleanText(Decipher(DecryptedToken.payload).text)

\* decryptStreamPath ran and reached the marker step.
ReachedMarkerStep ==
    /\ decrypts = 1
    /\ IsDigit(DecryptedToken.first)
    /\ Decipher(DecryptedToken.payload).ok

Occurrences(t, p) == {i \in 0 .. Len(t) : OccursAt(t, p, i)}

FromFirst(t, p) == SubstringFrom(t, Min(Occurrences(t, p)))

\* C9 as stated: decryption succeeds exactly when the cleaned text contains
\* the 4-character marker 'hls/', with the base URL followed by the text from
\* the marker's first occurrence.
C9_FourCharMarker ==
    ReachedMarkerStep =>
        /\ hlsUrl # <<>> <=> Occurrences(RawText, <<"h","l","s","/">>) # {}
        /\ hlsUrl # <<>> => hlsUrl = HLS_BASE_URL \o FromFirst(RawText, <<"h","l","s","/">>)

\* C9 (amended): decryption succeeds exactly when the cleaned text contains
\* the 5-character '/hls/'; the result is then the base URL followed by the
\* text from the first occurrence of 'hls/' (which may lie before that
\* '/hls/'); without '/hls/' it fails with the empty string and the warning.
C9_FiveCharMarker ==
    ReachedMarkerStep =>
        /\ hlsUrl # <<>> <=> Occurrences(RawText, <<"/","h","l","s","/">>) # {}
        /\ hlsUrl # <<>> => hlsUrl = HLS_BASE_URL \o FromFirst(RawText, <<"h","l","s","/">>)
        /\ hlsUrl = <<>> =>
              /\ pc = "done" /\ result = <<>>
              /\ warnings = << <<"No /hls/ path found in decrypted text">> >>

\* The text 'qhls/z.mp4/hls/v.m3u8': 'hls/' occurs before the first '/hls/'.
C9_Witness ==
    /\ ReachedMarkerStep
    /\ hlsUrl # <<>>
    /\ Min(Occurrences(RawText, <<"h","l","s","/">>)) < Min(Occurrences(RawText, <<"/","h","l","s","/">>))

\* ------------------------------------------------------------------ C10
\* The claimed value of a duration directive: the seconds times 1000,
\* rounded, and 6000 for an unparsable one.
ClaimedMs(durationStr) ==
    IF ParseFloat(durationStr).nan THEN DefaultDurationMs
    ELSE RoundedMs(ParseFloat(durationStr))

\* C10: every Segment of a parsed Manifest has a non-negative durationMs,
\* which for a segment under a duration directive is the claimed value.
C10_NonNegativeDuration ==
    manifest # <<>> =>
        LET lines == ScannedLines
        IN  \A k \in 1 .. Len(manifest[1].segments) :
                LET seg == manifest[1].segments[k]
                    d   == PendingDirective(lines, NthSegmentLine(lines, k))
                IN  /\ seg.durationMs >= 0
                    /\ d # {} =>
                          seg.durationMs =
                              ClaimedMs(DurationText(lines[CHOOSE j \in d : TRUE]))

\* ------------------------------------------------------------------ C11
\* s.endsWith(p)
EndsWith(s, p) == OccursAt(s, p, Len(s) - Len(p))

\* The claimed format: the extension the URL ends in before any query string,
\* when it is one of the four named, and m4a otherwise.
ClaimedFormat(url) ==
    LET path == Split(url, <<"?">>)[1]
    IN  IF EndsWith(path, <<".","m","4","s">>) THEN "m4s"
        ELSE IF EndsWith(path, <<".","m","p","4">>) THEN "mp4"
        ELSE IF EndsWith(path, <<".","t","s">>) THEN "ts"
        ELSE IF EndsWith(path, <<".","a","a","c">>) THEN "aac"
        ELSE "m4a"

\* C11: the format of a returned descriptor is the one the suffix of the
\* first segment's URL (before any query string) names, m4a when it names
\* none; the rest of the URL and the other segments have no influence.
C11_FormatFromSuffix ==
    result # <<>> => result[1].format = ClaimedFormat(result[1].segments[1].url)

\* ------------------------------------------------------------------ C12
\* The sum of the durationMs of the first n segments.
RECURSIVE SumOfFirst(_, _)
SumOfFirst(segments, n) ==
    IF n = 0 THEN 0 ELSE SumOfFirst(segments, n - 1) + segments[n].durationMs

\* The segments are the segment lines of the playlist, one each, in the order
\* of the lines, each resolved against the playlist's base URL.
SegmentsFollowLines(segments, baseUrl, lines) ==
    LET segmentLines == SelectSeq(lines, IsSegmentLine)
    IN  /\ Len(segments) = Len(segmentLines)
        /\ \A k \in 1 .. Len(segments) :
              segments[k].url = resolveUrl(baseUrl, segmentLines[k])

\* The segment lists in hand: the Manifest's and the returned descriptor's.
SegmentLists ==
    {m.segments : m \in Range(manifest)} \cup {d.segments : d \in Range(result)}

\* C12: the total duration of every Manifest the scan produces and of every
\* descriptor fetchStreamUrl returns is the sum of the durationMs of its
\* segments, and its segments are exactly the segment lines of the playlist,
\* one Segment per line, in playlist order.
C12_TotalAndOrder ==
    /\ \A segments \in SegmentLists :
          SegmentsFollowLines(segments, getBaseUrl(ScannedUrl), ScannedLines)
    /\ \A m \in Range(manifest) :
          m.totalDurationMs = SumOfFirst(m.segments, Len(m.segments))
    /\ \A d \in Range(result) :
          d.durationMs = SumOfFirst(d.segments, Len(d.segments))

\* A descriptor of two different segments with different durations, from a
\* playlist that also holds a line that is no segment.
C12_Witness ==
    /\ pc = "done"
    /\ result # <<>>
    /\ Len(result[1].segments) = 2
    /\ Len(ScannedLines) > 2
    /\ result[1].segments[1].url # result[1].segments[2].url
    /\ result[1].segments[1].durationMs # result[1].segments[2].durationMs
    /\ result[1].durationMs # 2 * DefaultDurationMs

=============================================================================
